---- MODULE Spec2Model ----
(***************************************************************************)
(* pyrolite-meltsutil, automation: MeltsBatch and MeltsExperiment.         *)
(*                                                                         *)
(* A configuration record (a python dict) is a function from a finite set  *)
(* of keys (strings) to naturals.  The values of the reserved keys          *)
(* "modifychem" and "exclude" are indexes into the tables Modifications      *)
(* and Exclusions, which hold the nested mapping and the list they stand    *)
(* for; the value of "modes" stands for a list of modes.                    *)
(***************************************************************************)
EXTENDS Naturals, Sequences, FiniteSets, TLC

\* ------------------------------------------------------------------ bounds
MaxChoices == 2     \* longest list of choices of one key of config_grid
MaxComps == 2       \* most rows of comp_df
MaxBatches == 2     \* most MeltsBatch objects built on the one logger
MaxCalls == 2       \* most calls of MeltsBatch.run on one batch

\* ------------------------------------------------------------ python dicts
EmptyDict == <<>>

\* {**a, **b}: the keys of both, b's value on a shared key
Merge(a, b) == [k \in (DOMAIN a) \cup (DOMAIN b) |->
                   IF k \in DOMAIN b THEN b[k] ELSE a[k]]

\* the dict left by d.pop(k)
Pop(d, k) == [x \in (DOMAIN d) \ {k} |-> d[x]]

RECURSIVE Flatten(_)
Flatten(ss) == IF ss = <<>> THEN <<>> ELSE Head(ss) \o Flatten(Tail(ss))

Range(s) == {s[j] : j \in DOMAIN s}

RECURSIVE SumOver(_, _)
SumOver(d, ks) ==
    IF ks = {} THEN 0
    ELSE LET k == CHOOSE x \in ks : TRUE IN d[k] + SumOver(d, ks \ {k})

\* ------------------------------------------------------------------- keys
\* __chem__: the element and oxide names, of which the model uses two
chem == {"SiO2", "MgO"}

\* the nested mapping a "modifychem" value stands for
Modifications(v) == IF v = 1 THEN [MgO |-> 20] ELSE [SiO2 |-> 70]

\* the list an "exclude" value stands for
Exclusions(v) == IF v = 1 THEN <<"MgO">> ELSE <<"SiO2">>

\* ---------------------------------------------------- pyrolite.util.multip
\* combine_choices: one dict per element of the product of the lists of
\* choices, the first key outermost; choices is an ordered mapping, here a
\* sequence of <<key, list>> pairs
RECURSIVE combine_choices(_)
combine_choices(choices) ==
    IF choices = <<>> THEN <<EmptyDict>>
    ELSE LET k == choices[1][1]
             vs == choices[1][2]
             rest == combine_choices(Tail(choices))
         IN Flatten([a \in DOMAIN vs |->
                        [b \in DOMAIN rest |-> Merge(k :> vs[a], rest[b])]])

\* ------------------------------------------------------------- .naming
\* exp_name: a deterministic name, distinct for structurally distinct records
exp_name(expr) == <<"exp", expr>>

\* ------------------------------------------------------------------ state
VARIABLES
    args,           \* the arguments of MeltsBatch(...)
    handlers,       \* file handlers attached to the module's logger
    autolog,        \* the lines of autolog.log
    configs,        \* self.configs
    compositions,   \* self.compositions
    experiments,    \* self.experiments
    est_duration,   \* self.est_duration, in seconds
    attrs,          \* the attributes run has set: started, duration, paths
    started,        \* self.started
    duration,       \* self.duration
    self_paths,     \* self.paths
    lists,          \* the list objects passed as exclude, by reference
    pc,             \* position in MeltsBatch.run
    overwrite,      \* run's argument
    exclude,        \* run's argument: a reference into lists
    superliquidus_start, \* run's argument
    todo,           \* run's local experiments: indexes of self.experiments
    idx,            \* iterations of run's loop begun
    paths,          \* run's local paths
    M,              \* the MeltsExperiment of the iteration, its process
    procs,          \* every engine process ever spawned
    folders,        \* names of the run folders that exist under self.dir
    files,          \* the input file written in each run folder
    now,            \* time.time()
    calls,          \* calls of run so far
    outcome,        \* how the last call of run ended
    existed         \* folders when run was called

batchVars == <<args, handlers, autolog, configs, compositions, experiments,
               est_duration>>
runVars == <<attrs, started, duration, self_paths, lists, pc, overwrite,
             exclude, superliquidus_start, todo, idx, paths, M, procs,
             folders, files, now, calls, outcome, existed>>
vars == <<batchVars, runVars>>

\* ------------------------------------------------------------------ logger
\* a line of autolog.log: the event and what its message formats, a name or
\* a number; exp and call tell which experiment of which call of run wrote it
NoName == <<>>
Line(event, name, n, e, c) ==
    [event |-> event, name |-> name, n |-> n, exp |-> e, call |-> c]

\* logger.info(msg): each of the h handlers of the logger appends the line
Info(log, h, msg) == log \o [j \in 1..h |-> msg]

\* ------------------------------------------------------ MeltsBatch.__init__
SecondsPerRun == 6

\* faulty variant of Expand: the default wins over the combination
ExpandDefaultWins(default, config_grid) ==
    LET grid == combine_choices(config_grid)
        first == <<default>>
        kept == SelectSeq(grid, LAMBDA i : i \notin Range(first))
    IN first \o [j \in DOMAIN kept |-> Merge(kept[j], default)]

\* self.configs: the default, then the default overridden by every
\* combination i of the grid for which `i not in self.configs` held, where
\* self.configs is still [default] while the comprehension is evaluated
Expand(default, config_grid) ==
    LET grid == combine_choices(config_grid)
        first == <<default>>
        kept == SelectSeq(grid, LAMBDA i : i \notin Range(first))
    IN first \o [j \in DOMAIN kept |-> Merge(default, kept[j])]

\* faulty variant of Exprs: the two lists are zipped, not multiplied
ExprsZipped(cfgs, cmps) ==
    [j \in 1..(IF Len(cfgs) < Len(cmps) THEN Len(cfgs) ELSE Len(cmps)) |->
        Merge(cfgs[j], cmps[j])]

\* itertools.product(configs, compositions), merged: the configuration outer
Exprs(cfgs, cmps) ==
    Flatten([a \in DOMAIN cfgs |->
                [b \in DOMAIN cmps |-> Merge(cfgs[a], cmps[b])]])

Experiments(cfgs, cmps) ==
    LET exprs == Exprs(cfgs, cmps)
    IN [j \in DOMAIN exprs |->
           [name |-> exp_name(exprs[j]), cfg |-> exprs[j], env |-> "env"]]

EstDuration(exps) == Len(exps) * SecondsPerRun

\* the exclude lists: run's default argument, one object for every call, and
\* a list of the caller's
Lists0 == [default |-> <<>>, caller |-> <<"Pressure">>]

\* nothing of run has happened
RunIdle ==
    /\ attrs = {}
    /\ started = 0
    /\ duration = 0
    /\ self_paths = <<>>
    /\ lists = Lists0
    /\ pc = "idle"
    /\ overwrite = FALSE
    /\ exclude = "default"
    /\ superliquidus_start = TRUE
    /\ todo = <<>>
    /\ idx = 0
    /\ paths = <<>>
    /\ M = [title |-> NoName, mp |-> 0]
    /\ procs = <<>>
    /\ folders = {}
    /\ files = EmptyDict
    /\ now = 0
    /\ calls = 0
    /\ outcome = "none"
    /\ existed = {}

\* a MeltsBatch exists
Constructed == handlers >= 1

\* MeltsBatch(comp_df, default_config=..., config_grid=...)
Construct ==
    /\ pc = "idle"
    /\ calls = 0
    /\ handlers < MaxBatches
    /\ handlers' = handlers + 1
    /\ configs' = Expand(args.default_config, args.config_grid)
    /\ compositions' = args.comp_df
    /\ experiments' = Experiments(configs', compositions')
    /\ est_duration' = EstDuration(experiments')
    /\ autolog' = Info(autolog, handlers',
                       Line("Estimated", NoName, est_duration', 0, 0))
    /\ UNCHANGED <<args, runVars>>

\* ------------------------------------------------------------------ inputs
Vals == {1, 2}

Dicts(keys) == UNION {[ks -> Vals] : ks \in SUBSET keys}

SeqsUpTo(S, n) == UNION {[1..m -> S] : m \in 0..n}

\* orderings of the keys of a grid
KeyOrders(keys) ==
    {o \in SeqsUpTo(keys, Cardinality(keys)) :
        \A a, b \in DOMAIN o : a # b => o[a] # o[b]}

ChoiceGrids(keys) ==
    UNION {{[j \in DOMAIN o |-> <<o[j], l[j]>>] :
               l \in [DOMAIN o -> SeqsUpTo(Vals, MaxChoices)]} :
           o \in KeyOrders(keys)}

\* rows of comp_df: every row has the columns of the frame
Rows(extra) ==
    {Merge(c, x) : c \in {[SiO2 |-> 60, MgO |-> 40], [SiO2 |-> 50, MgO |-> 50]},
                   x \in [extra -> {1}]}

Frames == UNION {SeqsUpTo(Rows(extra), MaxComps) : extra \in SUBSET {"Pressure"}}

GridInputs ==
    [default_config : Dicts({"modes", "Pressure"}),
     config_grid : ChoiceGrids({"Pressure", "exclude"}),
     comp_df : Frames]

\* -------------------------------------------------- construction on its own
InitGrid ==
    /\ args \in GridInputs
    /\ handlers = 0
    /\ autolog = <<>>
    /\ configs = <<>>
    /\ compositions = <<>>
    /\ experiments = <<>>
    /\ est_duration = 0
    /\ RunIdle

NextGrid == Construct

SpecGrid == InitGrid /\ [][NextGrid]_vars

\* ------------------------------------------------------------ .meltsfile
\* dict_to_meltsfile(exp, modes=..., exclude=...): the input file, without
\* the excluded parameters
dict_to_meltsfile(exp, modes, excl) ==
    [params |-> [k \in (DOMAIN exp) \ Range(excl) |-> exp[k]],
     modes |-> modes,
     exclude |-> excl]

\* ------------------------------------------------------------- MeltsBatch.run
Indexes(exps) == [j \in DOMAIN exps |-> j]

\* faulty variants of Selected: nothing is skipped; the experiments are gone
\* through from the last to the first
SelectedAll(exps, ow, dirs) == Indexes(exps)

SelectedBackwards(exps, ow, dirs) ==
    LET fwd == IF ow THEN Indexes(exps)
               ELSE SelectSeq(Indexes(exps), LAMBDA j : exps[j].name \notin dirs)
    IN [j \in DOMAIN fwd |-> fwd[Len(fwd) + 1 - j]]

\* the experiments run goes through: all of them, or with overwrite unset
\* those whose folder self.dir / name does not exist
Selected(exps, ow, dirs) ==
    IF ow THEN Indexes(exps)
    ELSE SelectSeq(Indexes(exps), LAMBDA j : exps[j].name \notin dirs)

\* the experiment of the iteration
cur == todo[idx]
exp == experiments[cur].cfg
name == experiments[cur].name

SetCfg(exps, j, cfg) == [exps EXCEPT ![j].cfg = cfg]

\* an exception leaves run
Raise(kind) ==
    /\ pc' = "idle"
    /\ outcome' = kind

\* lines 185-195
Call(ow, ex, sl) ==
    /\ pc = "idle"
    /\ Constructed
    /\ calls < MaxCalls
    /\ calls' = calls + 1
    /\ overwrite' = ow
    /\ exclude' = ex
    /\ superliquidus_start' = sl
    /\ started' = now
    /\ attrs' = attrs \cup {"started"}
    /\ todo' = Selected(experiments, ow, folders)
    /\ existed' = folders
    /\ autolog' = Info(autolog, handlers,
                       Line("Starting", NoName, Len(todo'), 0, calls'))
    /\ paths' = <<>>
    /\ idx' = 0
    /\ pc' = "loop"
    /\ outcome' = "running"
    /\ UNCHANGED <<args, handlers, configs, compositions, experiments,
                   est_duration, duration, self_paths, lists, M, procs,
                   folders, files, now>>

\* lines 199-202: the directive is popped, and then looked up in exp
ModifyChemRaises ==
    /\ pc = "loop"
    /\ idx < Len(todo)
    /\ idx' = idx + 1
    /\ LET e == todo[idx + 1]
           popped == Pop(experiments[e].cfg, "modifychem")
       IN /\ "modifychem" \in DOMAIN experiments[e].cfg
          /\ experiments' = SetCfg(experiments, e, popped)
          /\ "modifychem" \notin DOMAIN popped
    /\ Raise("KeyError")
    /\ UNCHANGED <<args, handlers, autolog, configs, compositions,
                   est_duration, attrs, started, duration, self_paths, lists,
                   overwrite, exclude, superliquidus_start, todo, paths, M,
                   procs, folders, files, now, calls, existed>>

\* lines 210-216: exp_exclude is the list object exclude, extended in place
Prepare ==
    /\ pc = "loop"
    /\ idx < Len(todo)
    /\ idx' = idx + 1
    /\ LET e == todo[idx + 1]
           cfg == experiments[e].cfg
       IN /\ "modifychem" \notin DOMAIN cfg
          /\ IF "exclude" \in DOMAIN cfg
             THEN /\ lists' = [lists EXCEPT ![exclude] =
                                   @ \o Exclusions(cfg["exclude"])]
                  /\ experiments' = SetCfg(experiments, e, Pop(cfg, "exclude"))
             ELSE UNCHANGED <<lists, experiments>>
          /\ autolog' = Info(autolog, handlers,
                             Line("Start", experiments[e].name, 0, e, calls))
    /\ pc' = "render"
    /\ UNCHANGED <<args, handlers, configs, compositions, est_duration, attrs,
                   started, duration, self_paths, overwrite, exclude,
                   superliquidus_start, todo, paths, M, procs, folders, files,
                   now, calls, outcome, existed>>

\* line 217: exp["modes"] of a record without modes
RenderRaises ==
    /\ pc = "render"
    /\ "modes" \notin DOMAIN exp
    /\ Raise("KeyError")
    /\ UNCHANGED <<batchVars, attrs, started, duration, self_paths, lists,
                   overwrite, exclude, superliquidus_start, todo, idx, paths,
                   M, procs, folders, files, now, calls, existed>>

\* lines 217-218, 47-59, 85-93: the input file is rendered and the run folder
\* made, with the input file in it
Materialize ==
    /\ pc = "render"
    /\ "modes" \in DOMAIN exp
    /\ folders' = folders \cup {name}
    /\ files' = Merge(files, name :>
                      dict_to_meltsfile(exp, exp["modes"], lists[exclude]))
    /\ M' = [title |-> name, mp |-> 0]
    /\ pc' = "spawn"
    /\ UNCHANGED <<batchVars, attrs, started, duration, self_paths, lists,
                   overwrite, exclude, superliquidus_start, todo, idx, paths,
                   procs, now, calls, outcome, existed>>

\* make_meltsfolder where the folder exists and overwriting was not asked for
FolderExists ==
    /\ pc = "render"
    /\ "modes" \in DOMAIN exp
    /\ name \in folders
    /\ Raise("FolderExistsError")
    /\ UNCHANGED <<batchVars, attrs, started, duration, self_paths, lists,
                   overwrite, exclude, superliquidus_start, todo, idx, paths,
                   M, procs, folders, files, now, calls, existed>>

\* ------------------------------------------------------ MeltsExperiment.run
\* faulty variant of Commands: the flag is sent the wrong way round
CommandsFlagInverted(sl) == <<3, IF sl THEN 0 ELSE 1, 4>>

\* line 104: the commands written to the engine; [0, 1][True] is 1
Commands(sl) == <<3, IF sl THEN 1 ELSE 0, 4>>

\* lines 99-103: MeltsProcess(...)
Spawn ==
    /\ pc = "spawn"
    /\ procs' = Append(procs, [exp |-> cur, call |-> calls, sent |-> <<>>,
                               wait |-> FALSE, live |-> TRUE,
                               terminate |-> 0])
    /\ M' = [M EXCEPT !.mp = Len(procs')]
    /\ pc' = "write"
    /\ UNCHANGED <<batchVars, attrs, started, duration, self_paths, lists,
                   overwrite, exclude, superliquidus_start, todo, idx, paths,
                   folders, files, now, calls, outcome, existed>>

mp == procs[M.mp]

\* a command is written to the engine's input, waiting for it or not
Sent(p, token, wait) == [p EXCEPT !.sent = Append(@, token), !.wait = wait]

\* MeltsProcess.terminate(): the engine is ended
Terminated(p) == [p EXCEPT !.live = FALSE, !.terminate = @ + 1]

\* the controller ends an engine that stays silent
Killed(p) == [p EXCEPT !.live = FALSE]

\* MeltsProcess.write, wait=True: the next command is written and flushed,
\* and the engine gets ready for more
WriteToken ==
    /\ pc = "write"
    /\ Len(mp.sent) < Len(Commands(superliquidus_start))
    /\ procs' = [procs EXCEPT ![M.mp] =
                     Sent(@, Commands(superliquidus_start)[Len(mp.sent) + 1],
                          TRUE)]
    /\ now' = now + 1
    /\ UNCHANGED <<batchVars, attrs, started, duration, self_paths, lists, pc,
                   overwrite, exclude, superliquidus_start, todo, idx, paths,
                   M, folders, files, calls, outcome, existed>>

\* MeltsProcess.write: the engine answers a command with an error
WriteFails ==
    /\ pc = "write"
    /\ Len(mp.sent) < Len(Commands(superliquidus_start))
    /\ procs' = [procs EXCEPT ![M.mp] =
                     Sent(@, Commands(superliquidus_start)[Len(mp.sent) + 1],
                          TRUE)]
    /\ now' = now + 1
    /\ Raise("ProtocolFailureError")
    /\ UNCHANGED <<batchVars, attrs, started, duration, self_paths, lists,
                   overwrite, exclude, superliquidus_start, todo, idx, paths,
                   M, folders, files, calls, existed>>

\* MeltsProcess.write: the engine stays silent past the bound, and the
\* controller ends it
WriteTimesOut ==
    /\ pc = "write"
    /\ Len(mp.sent) < Len(Commands(superliquidus_start))
    /\ procs' = [procs EXCEPT ![M.mp] =
                     Killed(Sent(@, Commands(superliquidus_start)
                                       [Len(mp.sent) + 1], TRUE))]
    /\ now' = now + 1
    /\ Raise("ProtocolTimeoutError")
    /\ UNCHANGED <<batchVars, attrs, started, duration, self_paths, lists,
                   overwrite, exclude, superliquidus_start, todo, idx, paths,
                   M, folders, files, calls, existed>>

\* line 105, once write has returned
Terminate ==
    /\ pc = "write"
    /\ Len(mp.sent) = Len(Commands(superliquidus_start))
    /\ procs' = [procs EXCEPT ![M.mp] = Terminated(@)]
    /\ pc' = "finished"
    /\ UNCHANGED <<batchVars, attrs, started, duration, self_paths, lists,
                   overwrite, exclude, superliquidus_start, todo, idx, paths,
                   M, folders, files, now, calls, outcome, existed>>

\* line 220
Finished ==
    /\ pc = "finished"
    /\ autolog' = Info(autolog, handlers, Line("Finished", name, 0, cur, calls))
    /\ pc' = "loop"
    /\ UNCHANGED <<args, handlers, configs, compositions, experiments,
                   est_duration, attrs, started, duration, self_paths, lists,
                   overwrite, exclude, superliquidus_start, todo, idx, paths,
                   M, procs, folders, files, now, calls, outcome, existed>>

\* faulty variant of Return: the estimate is set to the time the call took
ReturnReestimates ==
    /\ pc = "loop"
    /\ idx = Len(todo)
    /\ duration' = now - started
    /\ est_duration' = duration'
    /\ autolog' = Info(autolog, handlers,
                       Line("Complete", NoName, duration', 0, calls))
    /\ self_paths' = paths
    /\ attrs' = attrs \cup {"duration", "paths"}
    /\ pc' = "idle"
    /\ outcome' = "returned"
    /\ UNCHANGED <<args, handlers, configs, compositions, experiments,
                   started, lists, overwrite, exclude, superliquidus_start,
                   todo, idx, paths, M, procs, folders, files, now, calls,
                   existed>>

\* lines 221-223
Return ==
    /\ pc = "loop"
    /\ idx = Len(todo)
    /\ duration' = now - started
    /\ autolog' = Info(autolog, handlers,
                       Line("Complete", NoName, duration', 0, calls))
    /\ self_paths' = paths
    /\ attrs' = attrs \cup {"duration", "paths"}
    /\ pc' = "idle"
    /\ outcome' = "returned"
    /\ UNCHANGED <<args, handlers, configs, compositions, experiments,
                   est_duration, started, lists, overwrite, exclude,
                   superliquidus_start, todo, idx, paths, M, procs, folders,
                   files, now, calls, existed>>

\* --------------------------------------------------------- a batch and runs
\* batches of one or two experiments
RunInputs ==
    LET all == [default_config : {EmptyDict, [modes |-> 1],
                                  [modes |-> 1, modifychem |-> 2],
                                  [modes |-> 1, exclude |-> 1]},
                config_grid : {<<>>, <<<<"exclude", <<2>>>>>>,
                               <<<<"modifychem", <<1>>>>>>,
                               <<<<"modes", <<1, 2>>>>>>},
                comp_df : {<<[SiO2 |-> 60, MgO |-> 40]>>,
                           <<[SiO2 |-> 60, MgO |-> 40],
                             [SiO2 |-> 50, MgO |-> 50]>>}]
    IN {a \in all :
           Len(Exprs(Expand(a.default_config, a.config_grid), a.comp_df)) <= 2}

\* the first batch of the interpreter, constructed
Init ==
    /\ args \in RunInputs
    /\ handlers = 1
    /\ configs = Expand(args.default_config, args.config_grid)
    /\ compositions = args.comp_df
    /\ experiments = Experiments(configs, compositions)
    /\ est_duration = EstDuration(experiments)
    /\ autolog = Info(<<>>, handlers, Line("Estimated", NoName, est_duration, 0, 0))
    /\ RunIdle

Next ==
    \/ \E ow \in BOOLEAN, ex \in DOMAIN Lists0, sl \in BOOLEAN : Call(ow, ex, sl)
    \/ ModifyChemRaises
    \/ Prepare
    \/ RenderRaises
    \/ Materialize
    \/ FolderExists
    \/ Spawn
    \/ WriteToken
    \/ WriteFails
    \/ WriteTimesOut
    \/ Terminate
    \/ Finished
    \/ Return

Spec == Init /\ [][Next]_vars

\* =================================================================== claims
default == args.default_config

NoTwoEqual(s) == \A a, b \in DOMAIN s : a # b => s[a] # s[b]

RECURSIVE Combinations(_)
Combinations(choices) ==
    IF choices = <<>> THEN 1
    ELSE Len(choices[1][2]) * Combinations(Tail(choices))

\* C3: with an empty choice grid the configuration list is the default alone
C3_EmptyGridIsDefault ==
    (Constructed /\ args.config_grid = <<>>) => configs = <<default>>

\* C4: the configuration list holds no two equal records, and its length is
\* 1 + k1*...*kn unless a combination merged over the default gives the
\* default again, when it is less
C4_NoDuplicateConfigs ==
    Constructed =>
        LET grid == combine_choices(args.config_grid)
            full == 1 + Combinations(args.config_grid)
            reproduces == \E j \in DOMAIN grid : Merge(default, grid[j]) = default
        IN /\ NoTwoEqual(configs)
           /\ IF reproduces THEN Len(configs) < full ELSE Len(configs) = full

\* C6: no two experiments of the batch have the same name
C6_UniqueNames ==
    Constructed =>
        \A a, b \in DOMAIN experiments :
            a # b => experiments[a].name # experiments[b].name

\* the record of experiment e as __init__ built it
Original(e) == Experiments(configs, compositions)[e].cfg

\* a call of run is over
RunOver == calls > 0 /\ pc = "idle"

IsPrefix(s, t) == Len(s) <= Len(t) /\ \A j \in DOMAIN s : s[j] = t[j]

\* C1: when a call of run is over every experiment it selected was started,
\* whether or not an earlier one failed
C1_FailureDoesNotAbort == RunOver => idx = Len(todo)

\* C2: the experiments a call of run starts are, in the order of the set,
\* those whose folder did not exist when run was called, or all of them with
\* overwrite: none of the others is ever started, and all of them were when
\* run returns
C2_SkipsExistingFolders ==
    calls > 0 =>
        LET want == {j \in DOMAIN experiments :
                        overwrite \/ experiments[j].name \notin existed}
            begun == {todo[j] : j \in 1..idx}
        IN /\ begun \subseteq want
           /\ Cardinality(begun) = idx
           /\ outcome = "returned" => begun = want

C2_Witness ==
    /\ calls = 2
    /\ ~overwrite
    /\ outcome = "returned"
    /\ idx >= 1
    /\ \E j \in DOMAIN experiments : experiments[j].name \in existed
    /\ \E j \in 1..Len(procs) : procs[j].call = 1 /\ procs[j].live

\* C5: once run has taken the modifychem directive out of a record, the
\* record has the directive's values and its components sum to 100
C5_ModifyChemRenormalises ==
    \A e \in DOMAIN experiments :
        LET o == Original(e)
            c == experiments[e].cfg
        IN ("modifychem" \in DOMAIN o /\ "modifychem" \notin DOMAIN c) =>
              LET m == Modifications(o["modifychem"])
              IN /\ \A k \in DOMAIN m : k \in DOMAIN c /\ c[k] = m[k]
                 /\ SumOver(c, (DOMAIN c) \cap chem) = 100

\* C7: the engine of an experiment is sent 3, then 1 with superliquidus_start
\* and 0 without, then 4, in this order and nothing else, each with wait=True,
\* and terminate is called once, after all three were written
C7_ThreeCommandsThenTerminate ==
    pc \in {"write", "finished"} =>
        LET tokens == <<3, IF superliquidus_start THEN 1 ELSE 0, 4>>
        IN /\ IsPrefix(mp.sent, tokens)
           /\ mp.sent # <<>> => mp.wait
           /\ mp.terminate <= 1
           /\ mp.terminate = 1 => mp.sent = tokens
           /\ pc = "finished" => (mp.terminate = 1 /\ mp.sent = tokens)

C7_Witness ==
    pc = "finished" /\ ~superliquidus_start /\ mp.sent = <<3, 0, 4>>

\* C8: when a call of run is over no engine process is left running
C8_NoProcessLeftRunning ==
    RunOver => \A j \in DOMAIN procs : ~procs[j].live

\* C9: within a call of run the Start lines come in the order of
\* self.experiments, between the Start lines of two experiments there is the
\* Finished line of the first, and a Finished line is written only for an
\* experiment whose engine was terminated
C9_LogInOrder ==
    \A q \in DOMAIN autolog :
        LET b == autolog[q]
        IN /\ b.event = "Start" =>
                 \A p \in 1..(q - 1) :
                     (autolog[p].event = "Start" /\ autolog[p].call = b.call)
                         => /\ autolog[p].exp < b.exp
                            /\ \E r \in (p + 1)..(q - 1) :
                                  /\ autolog[r].event = "Finished"
                                  /\ autolog[r].exp = autolog[p].exp
                                  /\ autolog[r].call = b.call
           /\ b.event = "Finished" =>
                 /\ \E j \in DOMAIN procs :
                       /\ procs[j].exp = b.exp /\ procs[j].call = b.call
                       /\ ~procs[j].live /\ procs[j].terminate = 1
                 /\ \E r \in 1..(q - 1) :
                       /\ autolog[r].event = "Start"
                       /\ autolog[r].exp = b.exp
                       /\ autolog[r].call = b.call

C9_Witness ==
    \E p, q \in DOMAIN autolog :
        /\ p < q
        /\ autolog[p].event = "Finished" /\ autolog[q].event = "Finished"
        /\ autolog[p].call = autolog[q].call

\* C10: when run returns, self.paths lists the folder of every experiment the
\* call ran, in the order they ran, and self.duration is the time it took
C10_PathsAndDuration ==
    outcome = "returned" =>
        /\ self_paths = [j \in DOMAIN todo |-> experiments[todo[j]].name]
        /\ duration = now - started

\* C11: the experiment set has one entry for every pair of a configuration
\* and a composition, |configs| * |compositions| in all, the configuration
\* outer, and the record of the entry has the keys of both, with the value of
\* the composition on a key they share
C11_OneEntryPerPair ==
    Constructed =>
        /\ Len(experiments) = Len(configs) * Len(compositions)
        /\ \A a \in DOMAIN configs, b \in DOMAIN compositions :
              LET r == experiments[(a - 1) * Len(compositions) + b].cfg
                  cfg == configs[a]
                  cmp == compositions[b]
              IN /\ DOMAIN r = (DOMAIN cfg) \cup (DOMAIN cmp)
                 /\ \A k \in DOMAIN cmp : r[k] = cmp[k]
                 /\ \A k \in (DOMAIN cfg) \ (DOMAIN cmp) : r[k] = cfg[k]

C11_Witness ==
    /\ Constructed
    /\ Len(configs) = 3
    /\ Len(compositions) = 2
    /\ Len(experiments) = 6
    /\ "Pressure" \in (DOMAIN configs[2]) \cap (DOMAIN compositions[1])
    /\ configs[2]["Pressure"] # compositions[1]["Pressure"]

\* two entries of the experiment set have the same name
NameCollision ==
    \E a, b \in DOMAIN experiments :
        a # b /\ experiments[a].name = experiments[b].name

\* C12: for a batch two of whose experiments have the same name no run folder
\* is ever made and no engine process ever spawned
C12_CollisionStopsBatch ==
    NameCollision => (folders = {} /\ procs = <<>>)

\* where experiment e stands in the call of run: not selected, selected and
\* not begun, in its iteration, run to the end, or left by an exception
Status(e) ==
    IF \A j \in DOMAIN todo : todo[j] # e THEN "Skipped"
    ELSE LET j == CHOOSE i \in DOMAIN todo : todo[i] = e
         IN IF j > idx THEN "Pending"
            ELSE IF j < idx \/ outcome = "returned" THEN "Succeeded"
            ELSE IF pc = "idle" THEN "Failed"
            ELSE IF pc \in {"render"} THEN "Prepared"
            ELSE "Launched"

\* C13: when a call of run is over every experiment of the set is skipped,
\* succeeded or failed
C13_EveryExperimentFinal ==
    RunOver => \A e \in DOMAIN experiments :
                   Status(e) \in {"Skipped", "Succeeded", "Failed"}

\* C14: the estimate is 6 seconds for each entry of the whole experiment set,
\* from the construction on, whatever run has skipped and however long it took
C14_EstimateFixed == est_duration = 6 * Len(experiments)

C14_Witness ==
    /\ calls = 2
    /\ outcome = "returned"
    /\ idx >= 1
    /\ Len(todo) < Len(experiments)
    /\ duration > 0
    /\ duration # est_duration

\* combination t of the grid, counting from 1 with the last key running
\* fastest: the choice of key i is digit i of t - 1 written in the mixed
\* radix of the lengths of the lists
Combination(grid, t) ==
    [k \in {grid[i][1] : i \in DOMAIN grid} |->
        LET i == CHOOSE i \in DOMAIN grid : grid[i][1] = k
            stride == Combinations(SubSeq(grid, i + 1, Len(grid)))
        IN grid[i][2][(((t - 1) \div stride) % Len(grid[i][2])) + 1]]

\* C15: the first configuration is the default, and the later ones are, in
\* the order of the product with the first key outermost, the combinations
\* of the grid laid over the default, the value of the combination on a key
\* they share; the only combinations left out are those equal to the default
C15_DefaultThenProductOrder ==
    Constructed =>
        LET grid == args.config_grid
            all == [t \in 1..Combinations(grid) |-> t]
            kept == SelectSeq(all, LAMBDA t : Combination(grid, t) # default)
        IN /\ configs[1] = default
           /\ Len(configs) = 1 + Len(kept)
           /\ \A j \in DOMAIN kept :
                 LET c == Combination(grid, kept[j])
                     r == configs[j + 1]
                 IN /\ DOMAIN r = (DOMAIN default) \cup (DOMAIN c)
                    /\ \A k \in DOMAIN c : r[k] = c[k]
                    /\ \A k \in (DOMAIN default) \ (DOMAIN c) : r[k] = default[k]

C15_Witness ==
    /\ Constructed
    /\ Len(args.config_grid) = 2
    /\ args.config_grid[1][1] = "exclude"
    /\ Len(configs) = 5
    /\ "Pressure" \in DOMAIN default
    /\ configs[2]["Pressure"] # default["Pressure"]
    /\ configs[2]["exclude"] = configs[3]["exclude"]
    /\ configs[2]["Pressure"] # configs[3]["Pressure"]

\* C16: while run is going at most one engine process is running, every
\* process but the last spawned has been ended, and the run folder of the
\* experiment of every process exists
C16_OneEngineAtATime ==
    pc # "idle" =>
        /\ Cardinality({j \in DOMAIN procs : procs[j].live}) <= 1
        /\ \A j \in DOMAIN procs : j < Len(procs) => ~procs[j].live
        /\ \A j \in DOMAIN procs : experiments[procs[j].exp].name \in folders

\* the exclude directive of a record, as a list
OwnExclude(cfg) ==
    IF "exclude" \in DOMAIN cfg THEN Exclusions(cfg["exclude"]) ELSE <<>>

\* C17: the exclusion list with which the input file of an experiment is
\* rendered is the list passed to run followed by the directive of the
\* experiment itself, and no step of run changes the list of the caller
C17_ExclusionIsArgumentPlusOwn ==
    [][/\ (pc = "loop" /\ pc' = "render") =>
              lists'[exclude] =
                  Lists0[exclude] \o OwnExclude(experiments[todo[idx + 1]].cfg)
       /\ (pc = "render" /\ pc' = "spawn") =>
              files'[name].exclude = lists[exclude]
       /\ lists'["caller"] = lists["caller"]]_vars

\* C18: when run(overwrite=True) is called again after run(overwrite=True),
\* the stored record of every experiment is the one the constructor built,
\* with its modifychem and exclude directives, so that the second call
\* prepares every experiment as the first did
C18_SecondCallSameRecords ==
    [][(/\ pc = "idle" /\ calls = 1 /\ overwrite
        /\ pc' = "loop" /\ overwrite') =>
           \A e \in DOMAIN experiments : experiments'[e].cfg = Original(e)]_vars

\* C19: the log file holds the estimate of every batch constructed so far
\* exactly once: as many lines as batches were constructed
C19_EachEventOnce ==
    /\ Len(autolog) = handlers
    /\ \A j \in DOMAIN autolog : autolog[j].event = "Estimated"

====
